---- MODULE Spec2Model ----
(***************************************************************************)
(* Model of poly-commitment/src/commitment.rs: the commitment value        *)
(* PolyComm and its arithmetic, shift_scalar, the challenge polynomial     *)
(* (b_poly, b_poly_coefficients) and the batch combination functions       *)
(* (combined_inner_product, combine_commitments, combine_evaluations).     *)
(*                                                                         *)
(* The functions are pure.  The state machine applies one of them to an    *)
(* input drawn from a bounded set and records the call:                    *)
(*   op     - the function that was called last,                           *)
(*   args   - its arguments,                                               *)
(*   result - [panic |-> whether the call aborted, value |-> its result].  *)
(*                                                                         *)
(* A prime field F_p is modelled by the integers 0..p-1 with arithmetic    *)
(* modulo p.  The commitment curve is a group of prime order r; a point is *)
(* modelled by its discrete logarithm in 0..r-1 with respect to a fixed    *)
(* generator, so that the group law is addition modulo r, the identity     *)
(* (point at infinity) is 0 and scaling by a scalar is multiplication      *)
(* modulo r.  Every point has one representation, which is what            *)
(* into_affine() gives in the source.                                      *)
(***************************************************************************)
EXTENDS Integers, Sequences, FiniteSets, TLC

VARIABLES op, args, result, sponge

vars == <<op, args, result, sponge>>

(***************************************************************************)
(* Bounds of the model.                                                    *)
(***************************************************************************)
\* largest number of chunks of a commitment or of a row of a table
MaxChunks == 2
\* largest number of evaluation points of an evaluation table
MaxPoints == 2
\* largest number of polynomials / Evaluations / commitments in one call
MaxPolys == 2
\* largest number of challenges given to b_poly / b_poly_coefficients
MaxRounds == 3
\* number of bits of the BigInt that holds a modulus
BigIntBits == 8
\* largest number of points absorbed and challenges squeezed by one sponge
MaxTranscript == 4

(***************************************************************************)
(* Prime fields.                                                           *)
(***************************************************************************)
\* the modulus of the scalar field the pure functions are instantiated with
ScalarModulus == 43

F == 0 .. (ScalarModulus - 1)

FAddP(p, a, b) == (a + b) % p
FSubP(p, a, b) == (a - b) % p
FMulP(p, a, b) == (a * b) % p

RECURSIVE FPowP(_, _, _)
FPowP(p, a, e) == IF e = 0 THEN 1 % p ELSE FMulP(p, a, FPowP(p, a, e - 1))

\* field division: a / b is the x with x * b = a (b non-zero)
FDivP(p, a, b) == CHOOSE x \in 0 .. (p - 1) : FMulP(p, x, b) = a

FAdd(a, b) == FAddP(ScalarModulus, a, b)
FMul(a, b) == FMulP(ScalarModulus, a, b)
FPow(a, e) == FPowP(ScalarModulus, a, e)

(***************************************************************************)
(* The curve group (discrete logarithms modulo the group order).           *)
(***************************************************************************)
GZero == 0
GAdd(g, h) == (g + h) % ScalarModulus
GSub(g, h) == (g - h) % ScalarModulus
GMul(g, s) == (g * s) % ScalarModulus

RECURSIVE msm_bigint(_, _)
msm_bigint(points, scalars) ==
    IF points = <<>> \/ scalars = <<>> THEN GZero
    ELSE GAdd(GMul(Head(points), Head(scalars)),
              msm_bigint(Tail(points), Tail(scalars)))

(***************************************************************************)
(* Results of a call.                                                      *)
(***************************************************************************)
Ok(v) == [panic |-> FALSE, value |-> v]
Panic == [panic |-> TRUE, value |-> <<>>]

Max(a, b) == IF a >= b THEN a ELSE b

RECURSIVE MaxLen(_)
MaxLen(coms) ==
    IF coms = <<>> THEN 0 ELSE Max(Len(Head(coms)), MaxLen(Tail(coms)))

\* sequences over S of length at most n
SeqsUpTo(S, n) == UNION {[1 .. k -> S] : k \in 0 .. n}

(***************************************************************************)
(* PolyComm: a commitment is the sequence of its chunks (elems).           *)
(***************************************************************************)
\* add with the chunks that both commitments have subtracted
add_subtracting(self, other) ==
    LET n1 == Len(self)
        n2 == Len(other)
    IN  [i \in 1 .. Max(n1, n2) |->
            IF i <= n1 /\ i <= n2 THEN GSub(self[i], other[i])
            ELSE IF i <= n1 THEN self[i]
            ELSE other[i]]

\* add that stops at the end of the shorter commitment
add_truncating(self, other) ==
    LET n1 == Len(self)
        n2 == Len(other)
    IN  [i \in 1 .. (IF n1 <= n2 THEN n1 ELSE n2) |-> GAdd(self[i], other[i])]

\* impl Add for &PolyComm<C>
add(self, other) ==
    LET n1 == Len(self)
        n2 == Len(other)
    IN  [i \in 1 .. Max(n1, n2) |->
            IF i <= n1 /\ i <= n2 THEN GAdd(self[i], other[i])
            ELSE IF i <= n1 THEN self[i]
            ELSE other[i]]

\* impl Sub for &PolyComm<C>
sub(self, other) ==
    LET n1 == Len(self)
        n2 == Len(other)
    IN  [i \in 1 .. Max(n1, n2) |->
            IF i <= n1 /\ i <= n2 THEN GSub(self[i], other[i])
            ELSE IF i <= n1 THEN self[i]
            ELSE other[i]]

\* Option: None, and Some(v)
None == [some |-> FALSE, elems |-> <<>>]
Some(v) == [some |-> TRUE, elems |-> v]

\* PolyComm::zip
zip(self, other) ==
    IF Len(self) # Len(other) THEN Ok(None)
    ELSE Ok(Some([i \in 1 .. Len(self) |-> <<self[i], other[i]>>]))

\* the (point, scalar) pairs of the commitments that have the chunk, in order
RECURSIVE ChunkPairs(_, _, _)
ChunkPairs(com, scalars, chunk) ==
    IF com = <<>> \/ scalars = <<>> THEN <<>>
    ELSE (IF chunk <= Len(Head(com))
            THEN << <<Head(com)[chunk], Head(scalars)>> >>
            ELSE <<>>)
         \o ChunkPairs(Tail(com), Tail(scalars), chunk)

\* multi_scalar_mul with as many chunks as the first commitment has
multi_scalar_mul_first(com, elm) ==
    IF Len(com) # Len(elm) THEN Panic
    ELSE IF com = <<>> \/ elm = <<>> THEN Ok(<<GZero>>)
    ELSE LET elems_size == Len(com[1])
             pairs(chunk) == ChunkPairs(com, elm, chunk)
             points(chunk) == [i \in 1 .. Len(pairs(chunk)) |-> pairs(chunk)[i][1]]
             scalars(chunk) == [i \in 1 .. Len(pairs(chunk)) |-> pairs(chunk)[i][2]]
         IN  Ok([chunk \in 1 .. elems_size |->
                    msm_bigint(points(chunk), scalars(chunk))])

\* multi_scalar_mul that returns the commitment of no chunk for no input
multi_scalar_mul_empty(com, elm) ==
    IF Len(com) # Len(elm) THEN Panic
    ELSE IF com = <<>> \/ elm = <<>> THEN Ok(<<>>)
    ELSE LET elems_size == MaxLen(com)
             pairs(chunk) == ChunkPairs(com, elm, chunk)
             points(chunk) == [i \in 1 .. Len(pairs(chunk)) |-> pairs(chunk)[i][1]]
             scalars(chunk) == [i \in 1 .. Len(pairs(chunk)) |-> pairs(chunk)[i][2]]
         IN  Ok([chunk \in 1 .. elems_size |->
                    msm_bigint(points(chunk), scalars(chunk))])

\* multi_scalar_mul without the check of the lengths
multi_scalar_mul_unchecked(com, elm) ==
    IF com = <<>> \/ elm = <<>> THEN Ok(<<GZero>>)
    ELSE LET elems_size == MaxLen(com)
             pairs(chunk) == ChunkPairs(com, elm, chunk)
             points(chunk) == [i \in 1 .. Len(pairs(chunk)) |-> pairs(chunk)[i][1]]
             scalars(chunk) == [i \in 1 .. Len(pairs(chunk)) |-> pairs(chunk)[i][2]]
         IN  Ok([chunk \in 1 .. elems_size |->
                    msm_bigint(points(chunk), scalars(chunk))])

\* PolyComm::multi_scalar_mul
multi_scalar_mul(com, elm) ==
    IF Len(com) # Len(elm) THEN Panic
    ELSE IF com = <<>> \/ elm = <<>> THEN Ok(<<GZero>>)
    ELSE LET elems_size == MaxLen(com)
             pairs(chunk) == ChunkPairs(com, elm, chunk)
             points(chunk) == [i \in 1 .. Len(pairs(chunk)) |-> pairs(chunk)[i][1]]
             scalars(chunk) == [i \in 1 .. Len(pairs(chunk)) |-> pairs(chunk)[i][2]]
         IN  Ok([chunk \in 1 .. elems_size |->
                    msm_bigint(points(chunk), scalars(chunk))])

(***************************************************************************)
(* shift_scalar.  A curve G is given by the modulus r of its scalar field  *)
(* and the modulus q of its base field.                                    *)
(***************************************************************************)
Curves == {[r |-> 43, q |-> 47], [r |-> 47, q |-> 43],
           [r |-> 5, q |-> 7], [r |-> 7, q |-> 5]}

RECURSIVE Pow2(_)
Pow2(n) == IF n = 0 THEN 1 ELSE 2 * Pow2(n - 1)

\* BigInteger::to_bits_le: the bits of n, least significant first
to_bits_le(n) == [i \in 1 .. BigIntBits |-> (n \div Pow2(i - 1)) % 2]

\* BigInteger::from_bits_le: the BigInt of the bits, as far as they fit
RECURSIVE from_bits_le(_)
from_bits_le(bits) ==
    IF bits = <<>> \/ Len(bits) > BigIntBits
        THEN (IF bits = <<>> THEN 0
              ELSE from_bits_le(SubSeq(bits, 1, BigIntBits)))
    ELSE Head(bits) + 2 * from_bits_le(Tail(bits))

\* PrimeField::MODULUS_BIT_SIZE: the number of bits of the modulus
RECURSIVE MODULUS_BIT_SIZE(_)
MODULUS_BIT_SIZE(m) == IF m = 0 THEN 0 ELSE 1 + MODULUS_BIT_SIZE(m \div 2)

shift_scalar(G, x) ==
    LET n1 == G.r
        n2 == from_bits_le(to_bits_le(G.q))
        two == 2 % G.r
        two_pow == FPowP(G.r, two, MODULUS_BIT_SIZE(G.r))
    IN  IF n1 < n2
          THEN FDivP(G.r, FSubP(G.r, x, FAddP(G.r, two_pow, 1 % G.r)), two)
          ELSE FSubP(G.r, x, two_pow)

(***************************************************************************)
(* The challenge polynomial.                                               *)
(***************************************************************************)
\* product: the product of the field elements of a sequence
RECURSIVE product(_)
product(xs) == IF xs = <<>> THEN 1 ELSE FMul(Head(xs), product(Tail(xs)))

\* the vector pow_twos of b_poly after its loop: x, x^2, x^4, ...
RECURSIVE PowTwos(_, _)
PowTwos(x, k) ==
    IF k <= 1 THEN <<x>>
    ELSE LET prev == PowTwos(x, k - 1)
         IN  Append(prev, FMul(prev[k - 1], prev[k - 1]))

\* b_poly with the powers of x taken in the order of the challenges
b_poly_forward(chals, x) ==
    LET k == Len(chals)
        pow_twos == PowTwos(x, k)
    IN  product([i \in 1 .. k |-> FAdd(1, FMul(chals[i], pow_twos[i]))])

b_poly(chals, x) ==
    LET k == Len(chals)
        pow_twos == PowTwos(x, k)
    IN  product([i \in 1 .. k |-> FAdd(1, FMul(chals[i], pow_twos[k - i + 1]))])

\* the loop of b_poly_coefficients from index i (counted from 0) on
RECURSIVE BPolyCoefficientsLoop(_, _, _, _, _)
BPolyCoefficientsLoop(chals, s, k, pow, i) ==
    IF i >= Len(s) THEN s
    ELSE LET rounds == Len(chals)
             k1 == k + (IF i = pow THEN 1 ELSE 0)
             pow1 == IF i = pow THEN 2 * pow ELSE pow
             si == FMul(s[i - (pow1 \div 2) + 1], chals[rounds - 1 - (k1 - 1) + 1])
         IN  BPolyCoefficientsLoop(chals, [s EXCEPT ![i + 1] = si], k1, pow1, i + 1)

\* b_poly_coefficients with the challenges taken first to last
b_poly_coefficients_forward(chals) ==
    LET rounds == Len(chals)
        s_length == Pow2(rounds)
        s == [i \in 1 .. s_length |-> 1]
    IN  BPolyCoefficientsLoop([i \in 1 .. rounds |-> chals[rounds - i + 1]],
                              s, 0, 1, 1)

\* b_poly_coefficients (for fewer rounds than the bits of a usize)
b_poly_coefficients(chals) ==
    LET rounds == Len(chals)
        s_length == Pow2(rounds)
        s == [i \in 1 .. s_length |-> 1]
    IN  BPolyCoefficientsLoop(chals, s, 0, 1, 1)

(***************************************************************************)
(* The batch combination functions.  An evaluation table is a sequence     *)
(* over the evaluation points of rows, a row being the sequence of the     *)
(* values of the chunks at that point.  An Evaluation is a record          *)
(* [commitment |-> chunks, evaluations |-> table].  Indexing a vector      *)
(* outside its length aborts the call.                                     *)
(***************************************************************************)
\* DensePolynomial::eval_polynomial: the value at x of the polynomial with
\* the coefficients coeffs, lowest degree first (Horner)
RECURSIVE eval_polynomial(_, _)
eval_polynomial(coeffs, x) ==
    IF coeffs = <<>> THEN 0
    ELSE FAdd(Head(coeffs), FMul(x, eval_polynomial(Tail(coeffs), x)))

\* the loop of combined_inner_product over the segments of one polynomial:
\* <<res, xi_i>> after it
RECURSIVE CipSegments(_, _, _, _, _)
CipSegments(polyscale, evalscale, evals, res, xi_i) ==
    IF evals = <<>> THEN <<res, xi_i>>
    ELSE LET term == eval_polynomial(Head(evals), evalscale)
         IN  CipSegments(polyscale, evalscale, Tail(evals),
                         FAdd(res, FMul(xi_i, term)), FMul(xi_i, polyscale))

\* combined_inner_product with the power of polyscale reset for every polynomial
RECURSIVE CipPolysReset(_, _, _, _, _)
CipPolysReset(polyscale, evalscale, polys, res, xi_i) ==
    IF polys = <<>> THEN Ok(res)
    ELSE LET evals_tr == Head(polys)
         IN  IF evals_tr = <<>> THEN Panic
             ELSE IF evals_tr[1] = <<>>
               THEN CipPolysReset(polyscale, evalscale, Tail(polys), res, xi_i)
             ELSE IF \E j \in 1 .. Len(evals_tr) : Len(evals_tr[j]) < Len(evals_tr[1])
               THEN Panic
             ELSE LET evals == [i \in 1 .. Len(evals_tr[1]) |->
                                  [j \in 1 .. Len(evals_tr) |-> evals_tr[j][i]]]
                      after == CipSegments(polyscale, evalscale, evals, res, 1)
                  IN  CipPolysReset(polyscale, evalscale, Tail(polys), after[1], after[2])

\* the loop of combined_inner_product over the polynomials
RECURSIVE CipPolys(_, _, _, _, _)
CipPolys(polyscale, evalscale, polys, res, xi_i) ==
    IF polys = <<>> THEN Ok(res)
    ELSE LET evals_tr == Head(polys)
         IN  IF evals_tr = <<>> THEN Panic
             ELSE IF evals_tr[1] = <<>>
               THEN CipPolys(polyscale, evalscale, Tail(polys), res, xi_i)
             ELSE IF \E j \in 1 .. Len(evals_tr) : Len(evals_tr[j]) < Len(evals_tr[1])
               THEN Panic
             ELSE LET evals == [i \in 1 .. Len(evals_tr[1]) |->
                                  [j \in 1 .. Len(evals_tr) |-> evals_tr[j][i]]]
                      after == CipSegments(polyscale, evalscale, evals, res, xi_i)
                  IN  CipPolys(polyscale, evalscale, Tail(polys), after[1], after[2])

\* combined_inner_product that starts the powers of polyscale at polyscale
combined_inner_product_shifted(polyscale, evalscale, polys) ==
    CipPolys(polyscale, evalscale, polys, 0, polyscale)

combined_inner_product(polyscale, evalscale, polys) ==
    CipPolys(polyscale, evalscale, polys, 0, 1)

\* the loop of combine_commitments over the segments of one commitment
RECURSIVE CcSegments(_, _, _, _, _, _)
CcSegments(elems, scalars, points, polyscale, rand_base, xi_i) ==
    IF elems = <<>> THEN [scalars |-> scalars, points |-> points, xi_i |-> xi_i]
    ELSE CcSegments(Tail(elems), Append(scalars, FMul(rand_base, xi_i)),
                    Append(points, Head(elems)), polyscale, rand_base,
                    FMul(xi_i, polyscale))

\* combine_commitments with the power of polyscale reset for every evaluation
RECURSIVE CcEvaluationsReset(_, _, _, _, _, _)
CcEvaluationsReset(evaluations, scalars, points, polyscale, rand_base, xi_i) ==
    IF evaluations = <<>> THEN [scalars |-> scalars, points |-> points]
    ELSE IF Head(evaluations).commitment = <<>>
      THEN CcEvaluationsReset(Tail(evaluations), scalars, points, polyscale,
                              rand_base, xi_i)
    ELSE LET after == CcSegments(Head(evaluations).commitment, scalars, points,
                                 polyscale, rand_base, 1)
         IN  CcEvaluationsReset(Tail(evaluations), after.scalars, after.points,
                                polyscale, rand_base, after.xi_i)

\* the loop of combine_commitments over the evaluations
RECURSIVE CcEvaluations(_, _, _, _, _, _)
CcEvaluations(evaluations, scalars, points, polyscale, rand_base, xi_i) ==
    IF evaluations = <<>> THEN [scalars |-> scalars, points |-> points]
    ELSE IF Head(evaluations).commitment = <<>>
      THEN CcEvaluations(Tail(evaluations), scalars, points, polyscale,
                         rand_base, xi_i)
    ELSE LET after == CcSegments(Head(evaluations).commitment, scalars, points,
                                 polyscale, rand_base, xi_i)
         IN  CcEvaluations(Tail(evaluations), after.scalars, after.points,
                           polyscale, rand_base, after.xi_i)

\* combine_commitments with the first scalar already multiplied by polyscale
combine_commitments_shifted(evaluations, scalars, points, polyscale, rand_base) ==
    Ok(CcEvaluations(evaluations, scalars, points, polyscale, rand_base, polyscale))

\* combine_commitments: the vectors scalars and points after the call
combine_commitments(evaluations, scalars, points, polyscale, rand_base) ==
    Ok(CcEvaluations(evaluations, scalars, points, polyscale, rand_base, 1))

\* the loop of combine_evaluations over the evaluation points, for one chunk
RECURSIVE CePoints(_, _, _, _, _)
CePoints(evaluations, chunk_idx, eval_pt_idx, acc, xi_i) ==
    IF eval_pt_idx > Len(evaluations) THEN Ok(acc)
    ELSE IF eval_pt_idx > Len(acc) \/ chunk_idx > Len(evaluations[eval_pt_idx])
      THEN Panic
    ELSE CePoints(evaluations, chunk_idx, eval_pt_idx + 1,
                  [acc EXCEPT ![eval_pt_idx] =
                      FAdd(@, FMul(evaluations[eval_pt_idx][chunk_idx], xi_i))],
                  xi_i)

\* the loop of combine_evaluations over the chunks of one evaluation table
RECURSIVE CeChunks(_, _, _, _, _)
CeChunks(evaluations, chunk_idx, acc, xi_i, polyscale) ==
    IF chunk_idx > Len(evaluations[1]) THEN [panic |-> FALSE, acc |-> acc, xi_i |-> xi_i]
    ELSE LET after == CePoints(evaluations, chunk_idx, 1, acc, xi_i)
         IN  IF after.panic THEN [panic |-> TRUE, acc |-> acc, xi_i |-> xi_i]
             ELSE CeChunks(evaluations, chunk_idx + 1, after.value,
                           FMul(xi_i, polyscale), polyscale)

\* combine_evaluations with the power of polyscale reset for every evaluation
RECURSIVE CeEvaluationsReset(_, _, _, _)
CeEvaluationsReset(evaluations, acc, xi_i, polyscale) ==
    IF evaluations = <<>> THEN Ok(acc)
    ELSE IF Head(evaluations).commitment = <<>>
      THEN CeEvaluationsReset(Tail(evaluations), acc, xi_i, polyscale)
    ELSE IF Head(evaluations).evaluations = <<>> THEN Panic
    ELSE LET after == CeChunks(Head(evaluations).evaluations, 1, acc, 1, polyscale)
         IN  IF after.panic THEN Panic
             ELSE CeEvaluationsReset(Tail(evaluations), after.acc, after.xi_i, polyscale)

\* the loop of combine_evaluations over the evaluations
RECURSIVE CeEvaluations(_, _, _, _)
CeEvaluations(evaluations, acc, xi_i, polyscale) ==
    IF evaluations = <<>> THEN Ok(acc)
    ELSE IF Head(evaluations).commitment = <<>>
      THEN CeEvaluations(Tail(evaluations), acc, xi_i, polyscale)
    ELSE IF Head(evaluations).evaluations = <<>> THEN Panic
    ELSE LET after == CeChunks(Head(evaluations).evaluations, 1, acc, xi_i, polyscale)
         IN  IF after.panic THEN Panic
             ELSE CeEvaluations(Tail(evaluations), after.acc, after.xi_i, polyscale)

combine_evaluations(evaluations, polyscale) ==
    LET num_evals == IF evaluations # <<>>
                       THEN Len(evaluations[1].evaluations)
                       ELSE 0
        acc == [i \in 1 .. num_evals |-> 0]
    IN  CeEvaluations(evaluations, acc, 1, polyscale)

(***************************************************************************)
(* The inputs of the calls.  Tables and commitments are given by their     *)
(* shape and filled with sample field elements, a different one in every   *)
(* cell.                                                                   *)
(***************************************************************************)
\* the non-zero elements of the scalar field, in a fixed scrambled order
SampleValues == <<
    7, 6, 38, 15, 22, 18, 11, 13, 33, 24, 10, 14, 42, 1,
    31, 17, 41, 21, 25, 34, 30, 27, 20, 35, 9, 29, 40, 16,
    3, 2, 36, 19, 32, 39, 26, 8, 37, 5, 4, 28, 12, 23>>

Sample(n) == SampleValues[(n % Len(SampleValues)) + 1]

\* the number of samples set aside for one Evaluation (table, then commitment)
CellsPerEvaluation == MaxPoints * MaxChunks + MaxChunks

\* the table with rows of the lengths rows, filled from sample number base on
MkTable(rows, base) ==
    [j \in 1 .. Len(rows) |->
        [c \in 1 .. rows[j] |-> Sample(base + (j - 1) * MaxChunks + (c - 1))]]

\* the commitment with elems chunks, filled from sample number base on
MkCommitment(elems, base) == [c \in 1 .. elems |-> Sample(base + (c - 1))]

\* the i-th Evaluation of a list, of the shape [elems, rows]
MkEvaluation(shape, i) ==
    LET base == (i - 1) * CellsPerEvaluation
    IN  [commitment |-> MkCommitment(shape.elems, base + MaxPoints * MaxChunks),
         evaluations |-> MkTable(shape.rows, base)]

\* tables whose rows all have the same length
RectRows == {[j \in 1 .. n |-> k] : n \in 0 .. MaxPoints, k \in 0 .. MaxChunks}
\* tables with rows of any lengths
RaggedRows == SeqsUpTo(0 .. MaxChunks, MaxPoints)

RectShapes == [elems : 0 .. MaxChunks, rows : RectRows]
RaggedShapes == [elems : 0 .. MaxChunks, rows : RaggedRows]

\* the example of the documentation of combine_evaluations: 3 polynomials
\* of 2 chunks each, evaluated at 2 points
DocExampleShapes == [i \in 1 .. 3 |-> [elems |-> 2, rows |-> <<2, 2>>]]

\* lists of Evaluations with rectangular tables, single Evaluations with a
\* ragged table, and the documented example
EvaluationShapeLists ==
    SeqsUpTo(RectShapes, MaxPolys) \cup {<<s>> : s \in RaggedShapes}
        \cup {DocExampleShapes}

MkEvaluations(shapes) == [i \in 1 .. Len(shapes) |-> MkEvaluation(shapes[i], i)]

\* lists of rectangular tables, and single ragged tables
TableShapeLists == SeqsUpTo(RectRows, MaxPolys) \cup {<<r>> : r \in RaggedRows}

MkTables(shapes) ==
    [i \in 1 .. Len(shapes) |-> MkTable(shapes[i], (i - 1) * CellsPerEvaluation)]

\* lists of commitments, given by their numbers of chunks
MkCommitments(lens) ==
    [i \in 1 .. Len(lens) |-> MkCommitment(lens[i], (i - 1) * CellsPerEvaluation)]

PointSamples == {0, 1, 5}
Commitments == SeqsUpTo(PointSamples, MaxChunks)
ScalarSamples == {0, 1, 3}
PolyScales == {2, 3}
EvalScales == {1, 5}
\* a generator of the multiplicative group of the scalar field: its powers
\* polyscale^0, polyscale^1, ... differ for all exponents below 42
GeneratorScales == {3}
ChalSamples == {0, 1, 2, 42}

(***************************************************************************)
(* The transcript.  A sponge is the sequence of what it has absorbed and   *)
(* squeezed so far, oldest first.                                          *)
(***************************************************************************)
\* one curve point taken in by the sponge
Absorbed(g) == [kind |-> "absorb", value |-> g]
\* one challenge given out by the sponge
Squeezed == [kind |-> "squeeze", value |-> 0]

\* FqSponge::absorb_g: the points enter the sponge one after the other
absorb_g(sp, g) == sp \o [i \in 1 .. Len(g) |-> Absorbed(g[i])]

\* the scalar a sponge gives out: a function of all it has taken in and
\* given out before (the permutation itself is opaque)
RECURSIVE Digest(_)
Digest(sp) ==
    IF sp = <<>> THEN 1
    ELSE LET last == sp[Len(sp)]
         IN  FAdd(FMul(3, Digest(SubSeq(sp, 1, Len(sp) - 1))),
                  IF last.kind = "absorb" THEN last.value + 1 ELSE 0)

\* FqSponge::challenge: one squeeze, which the sponge remembers
challenge(sp) == [sponge |-> Append(sp, Squeezed), value |-> Digest(sp)]

squeeze_prechallenge(sp) == challenge(sp)

\* absorb_commitment that feeds the chunks last first
absorb_commitment_reversed(sp, commitment) ==
    absorb_g(sp, [i \in 1 .. Len(commitment) |->
                    commitment[Len(commitment) + 1 - i]])

absorb_commitment(sp, commitment) == absorb_g(sp, commitment)

(***************************************************************************)
(* The state machine: one call per run.                                    *)
(***************************************************************************)
Init ==
    /\ op = "none"
    /\ args = <<>>
    /\ result = Ok(<<>>)
    /\ sponge = <<>>

Add ==
    /\ op = "none"
    /\ UNCHANGED sponge
    /\ \E a \in Commitments, b \in Commitments :
        /\ op' = "add"
        /\ args' = [self |-> a, other |-> b]
        /\ result' = Ok(add(a, b))

Sub ==
    /\ op = "none"
    /\ UNCHANGED sponge
    /\ \E a \in Commitments, b \in Commitments :
        /\ op' = "sub"
        /\ args' = [self |-> a, other |-> b]
        /\ result' = Ok(sub(a, b))

Zip ==
    /\ op = "none"
    /\ UNCHANGED sponge
    /\ \E a \in Commitments, b \in Commitments :
        /\ op' = "zip"
        /\ args' = [self |-> a, other |-> b]
        /\ result' = zip(a, b)

MultiScalarMul ==
    /\ op = "none"
    /\ UNCHANGED sponge
    /\ \E lens \in SeqsUpTo(0 .. MaxChunks, MaxPolys),
          elm \in SeqsUpTo(ScalarSamples, MaxPolys) :
        /\ op' = "multi_scalar_mul"
        /\ args' = [com |-> MkCommitments(lens), elm |-> elm]
        /\ result' = multi_scalar_mul(MkCommitments(lens), elm)

ShiftScalar ==
    /\ op = "none"
    /\ UNCHANGED sponge
    /\ \E G \in Curves : \E x \in 0 .. (G.r - 1) :
        /\ op' = "shift_scalar"
        /\ args' = [G |-> G, x |-> x]
        /\ result' = Ok(shift_scalar(G, x))

BPoly ==
    /\ op = "none"
    /\ UNCHANGED sponge
    /\ \E chals \in SeqsUpTo(ChalSamples, MaxRounds), x \in F :
        /\ op' = "b_poly"
        /\ args' = [chals |-> chals, x |-> x]
        /\ result' = Ok(b_poly(chals, x))

BPolyCoefficients ==
    /\ op = "none"
    /\ UNCHANGED sponge
    /\ \E chals \in SeqsUpTo(ChalSamples, MaxRounds) :
        /\ op' = "b_poly_coefficients"
        /\ args' = [chals |-> chals]
        /\ result' = Ok(b_poly_coefficients(chals))

CombinedInnerProduct ==
    /\ op = "none"
    /\ UNCHANGED sponge
    /\ \E shapes \in TableShapeLists, polyscale \in PolyScales,
          evalscale \in EvalScales :
        /\ op' = "combined_inner_product"
        /\ args' = [polyscale |-> polyscale, evalscale |-> evalscale,
                    polys |-> MkTables(shapes)]
        /\ result' = combined_inner_product(polyscale, evalscale, MkTables(shapes))

CombineCommitments ==
    /\ op = "none"
    /\ UNCHANGED sponge
    /\ \E lens \in SeqsUpTo(0 .. MaxChunks, MaxPolys),
          prior \in SeqsUpTo({1}, 1),
          polyscale \in PolyScales, rand_base \in ScalarSamples :
        LET evaluations ==
                MkEvaluations([i \in 1 .. Len(lens) |->
                                  [elems |-> lens[i], rows |-> <<lens[i]>>]])
        IN  /\ op' = "combine_commitments"
            /\ args' = [evaluations |-> evaluations, scalars |-> prior,
                        points |-> prior, polyscale |-> polyscale,
                        rand_base |-> rand_base]
            /\ result' = combine_commitments(evaluations, prior, prior,
                                             polyscale, rand_base)

CombineEvaluations ==
    /\ op = "none"
    /\ UNCHANGED sponge
    /\ \E shapes \in EvaluationShapeLists, polyscale \in GeneratorScales :
        /\ op' = "combine_evaluations"
        /\ args' = [evaluations |-> MkEvaluations(shapes), polyscale |-> polyscale]
        /\ result' = combine_evaluations(MkEvaluations(shapes), polyscale)

Next ==
    \/ Add
    \/ Sub
    \/ Zip
    \/ MultiScalarMul
    \/ ShiftScalar
    \/ BPoly
    \/ BPolyCoefficients
    \/ CombinedInnerProduct
    \/ CombineCommitments
    \/ CombineEvaluations

Spec == Init /\ [][Next]_vars

(***************************************************************************)
(* The state machine of one sponge: any sequence of calls.                 *)
(***************************************************************************)
AbsorbCommitment ==
    \E c \in Commitments :
        /\ Len(sponge) + Len(c) <= MaxTranscript
        /\ op' = "absorb_commitment"
        /\ args' = [commitment |-> c]
        /\ result' = Ok(<<>>)
        /\ sponge' = absorb_commitment(sponge, c)

SqueezePrechallenge ==
    /\ Len(sponge) < MaxTranscript
    /\ op' = "squeeze_prechallenge"
    /\ args' = <<>>
    /\ result' = Ok(squeeze_prechallenge(sponge).value)
    /\ sponge' = squeeze_prechallenge(sponge).sponge

NextSponge ==
    \/ AbsorbCommitment
    \/ SqueezePrechallenge

SpecSponge == Init /\ [][NextSponge]_vars

(***************************************************************************)
(* Properties.                                                             *)
(***************************************************************************)
\* the sum in the scalar field of the elements of a sequence
RECURSIVE FSum(_)
FSum(xs) == IF xs = <<>> THEN 0 ELSE FAdd(Head(xs), FSum(Tail(xs)))

\* the sum of a sequence of natural numbers
RECURSIVE NatSum(_)
NatSum(ns) == IF ns = <<>> THEN 0 ELSE Head(ns) + NatSum(Tail(ns))

\* a table the functions can read: it has a first row and no row is shorter
\* than the first one; the number of chunks is the length of the first row
Readable(table) ==
    /\ table # <<>>
    /\ \A j \in 1 .. Len(table) : Len(table[j]) >= Len(table[1])

\* the number of chunks of the tables before the k-th one
TableChunksBefore(polys, k) ==
    NatSum([i \in 1 .. (k - 1) |-> Len(polys[i][1])])

\* the sum the documentation of combined_inner_product states, with the
\* exponent of polyscale written out
CipSum(polyscale, evalscale, polys) ==
    FSum([k \in 1 .. Len(polys) |->
        FSum([c \in 1 .. Len(polys[k][1]) |->
            FMul(FPow(polyscale, TableChunksBefore(polys, k) + (c - 1)),
                 FSum([j \in 1 .. Len(polys[k]) |->
                        FMul(polys[k][j][c], FPow(evalscale, j - 1))]))])])

\* C1: combined_inner_product skips the polynomials whose first row is empty
\* and returns, for the other ones in order, the sum over their chunks of
\* polyscale^r * (sum over the points j of polys[k][j][chunk] * evalscale^j),
\* r being one running chunk index over all polynomials, never reset.
C1_CombinedInnerProduct ==
    (op = "combined_inner_product"
        /\ \A k \in 1 .. Len(args.polys) : Readable(args.polys[k]))
    => result = Ok(CipSum(args.polyscale, args.evalscale, args.polys))

\* two polynomials of one chunk and one point, of values 7 and 11, with
\* polyscale = 3 and evalscale = 5: the result is 7 + 11 * 3 = 40
C1_Witness ==
    /\ op = "combined_inner_product"
    /\ args = [polyscale |-> 3, evalscale |-> 5,
               polys |-> << << <<7>> >>, << <<11>> >> >>]
    /\ result = Ok(40)

\* the (evaluation, chunk) pairs of the commitments' chunks, in order
RECURSIVE ChunkIndex(_, _)
ChunkIndex(evaluations, i) ==
    IF i > Len(evaluations) THEN <<>>
    ELSE [c \in 1 .. Len(evaluations[i].commitment) |-> <<i, c>>]
         \o ChunkIndex(evaluations, i + 1)

\* C2: combine_commitments appends to scalars and points, whose prior
\* contents stay in place, one pair (rand_base * polyscale^r, chunk point)
\* per chunk of each Evaluation with a non-empty commitment, in evaluation
\* order then chunk order, r counting the appended chunks from 0; empty
\* commitments contribute nothing and do not advance r.
C2_CombineCommitments ==
    op = "combine_commitments" =>
        LET idx == ChunkIndex(args.evaluations, 1)
        IN  /\ ~result.panic
            /\ result.value.scalars = args.scalars \o
                 [n \in 1 .. Len(idx) |->
                    FMul(args.rand_base, FPow(args.polyscale, n - 1))]
            /\ result.value.points = args.points \o
                 [n \in 1 .. Len(idx) |->
                    args.evaluations[idx[n][1]].commitment[idx[n][2]]]

\* an Evaluation with an empty commitment, then one of two chunks, appended
\* to vectors that are not empty
C2_Witness ==
    /\ op = "combine_commitments"
    /\ Len(args.evaluations) = 2
    /\ args.evaluations[1].commitment = <<>>
    /\ Len(args.evaluations[2].commitment) = 2
    /\ args.scalars # <<>>
    /\ args.rand_base = 3
    /\ args.polyscale = 2
    /\ result.value.scalars = args.scalars \o <<3, 6>>

\* the Evaluations that combine_evaluations reads: those with a non-empty
\* commitment; each has as many evaluation points as the first Evaluation of
\* the list, at least one, and rows of one length
SameShapes(evaluations) ==
    \A i \in 1 .. Len(evaluations) :
        evaluations[i].commitment # <<>> =>
            LET table == evaluations[i].evaluations
            IN  /\ table # <<>>
                /\ Len(table) = Len(evaluations[1].evaluations)
                /\ \A j \in 1 .. Len(table) : Len(table[j]) = Len(table[1])

\* the number of chunks of the tables that are read before the i-th one
EvalChunksBefore(evaluations, i) ==
    NatSum([k \in 1 .. (i - 1) |->
              IF evaluations[k].commitment = <<>> THEN 0
              ELSE Len(evaluations[k].evaluations[1])])

\* entry p of the combination, with the exponent of polyscale written out
CeSum(evaluations, polyscale, p) ==
    FSum([i \in 1 .. Len(evaluations) |->
        IF evaluations[i].commitment = <<>> THEN 0
        ELSE FSum([c \in 1 .. Len(evaluations[i].evaluations[1]) |->
                FMul(evaluations[i].evaluations[p][c],
                     FPow(polyscale, EvalChunksBefore(evaluations, i) + (c - 1)))])])

\* C3: combine_evaluations returns one entry per evaluation point of the
\* first Evaluation (none when no Evaluation is given); entry p is the sum,
\* over every chunk of every Evaluation with a non-empty commitment, of
\* evaluations[p][chunk] * polyscale^r, r being one running index over the
\* chunks of all polynomials.
C3_CombineEvaluations ==
    (op = "combine_evaluations" /\ SameShapes(args.evaluations)) =>
        /\ ~result.panic
        /\ Len(result.value) = (IF args.evaluations = <<>> THEN 0
                                ELSE Len(args.evaluations[1].evaluations))
        /\ \A p \in 1 .. Len(result.value) :
              result.value[p] = CeSum(args.evaluations, args.polyscale, p)

\* two Evaluations of two chunks each at two points
C3_Witness ==
    /\ op = "combine_evaluations"
    /\ SameShapes(args.evaluations)
    /\ Len(args.evaluations) = 2
    /\ \A i \in 1 .. 2 :
          /\ args.evaluations[i].commitment # <<>>
          /\ Len(args.evaluations[i].evaluations) = 2
          /\ Len(args.evaluations[i].evaluations[1]) = 2
    /\ Len(result.value) = 2

\* the place of chunk c of the i-th Evaluation among the chunks of the
\* commitments
ChunkPlace(evaluations, i, c) ==
    CHOOSE n \in 1 .. Len(ChunkIndex(evaluations, 1)) :
        ChunkIndex(evaluations, 1)[n] = <<i, c>>

\* the power of polyscale in the scalar that combine_commitments pairs with
\* chunk c of the i-th Evaluation (rand_base = 1, nothing appended before)
CommitmentsPower(evaluations, polyscale, i, c) ==
    combine_commitments(evaluations, <<>>, <<>>, polyscale, 1)
        .value.scalars[ChunkPlace(evaluations, i, c)]

\* the Evaluations with every value replaced by 0, but for a 1 at the first
\* evaluation point of chunk c of the i-th Evaluation
Probe(evaluations, i, c) ==
    [k \in 1 .. Len(evaluations) |->
        [commitment |-> evaluations[k].commitment,
         evaluations |->
            [j \in 1 .. Len(evaluations[k].evaluations) |->
                [d \in 1 .. Len(evaluations[k].evaluations[j]) |->
                    IF k = i /\ j = 1 /\ d = c THEN 1 ELSE 0]]]]

\* the power of polyscale by which combine_evaluations multiplies the values
\* of chunk c of the i-th Evaluation
EvaluationsPower(evaluations, polyscale, i, c) ==
    combine_evaluations(Probe(evaluations, i, c), polyscale).value[1]

NonEmptyCommitments(evaluations) ==
    \A i \in 1 .. Len(evaluations) : evaluations[i].commitment # <<>>

\* the chunks that the commitment and the table of the i-th Evaluation both have
SharedChunks(evaluations, i) ==
    {c \in 1 .. Len(evaluations[i].commitment) :
        c <= Len(evaluations[i].evaluations[1])}

SamePowers(evaluations, polyscale) ==
    \A i \in 1 .. Len(evaluations) : \A c \in SharedChunks(evaluations, i) :
        CommitmentsPower(evaluations, polyscale, i, c)
            = EvaluationsPower(evaluations, polyscale, i, c)

\* C4 as stated: for every list of Evaluations with non-empty commitments,
\* combine_commitments and combine_evaluations give chunk c of the i-th
\* Evaluation the same power of polyscale.
C4_AnyEvaluations ==
    (op = "combine_evaluations"
        /\ NonEmptyCommitments(args.evaluations)
        /\ SameShapes(args.evaluations))
    => SamePowers(args.evaluations, args.polyscale)

\* every table has as many chunks in a row as the commitment has chunks
ChunksMatch(evaluations) ==
    \A i \in 1 .. Len(evaluations) :
        Len(evaluations[i].evaluations[1]) = Len(evaluations[i].commitment)

\* C4 (amended): for every list of Evaluations with non-empty commitments in
\* which every table has as many chunks per row as its commitment has chunks,
\* combine_commitments and combine_evaluations give chunk c of the i-th
\* Evaluation the same power of polyscale.
C4_SamePowers ==
    (op = "combine_evaluations"
        /\ NonEmptyCommitments(args.evaluations)
        /\ SameShapes(args.evaluations)
        /\ ChunksMatch(args.evaluations))
    => SamePowers(args.evaluations, args.polyscale)

\* two polynomials of two chunks each: the first chunk of the second one
\* gets polyscale^2 on both sides
C4_Witness ==
    /\ op = "combine_evaluations"
    /\ ~result.panic
    /\ Len(args.evaluations) = 2
    /\ SameShapes(args.evaluations)
    /\ \A i \in 1 .. 2 :
          /\ Len(args.evaluations[i].commitment) = 2
          /\ Len(args.evaluations[i].evaluations[1]) = 2
    /\ CommitmentsPower(args.evaluations, args.polyscale, 2, 1)
          = FPow(args.polyscale, 2)
    /\ EvaluationsPower(args.evaluations, args.polyscale, 2, 1)
          = FPow(args.polyscale, 2)

\* the sum in the group of the elements of a sequence
RECURSIVE GSum(_)
GSum(gs) == IF gs = <<>> THEN GZero ELSE GAdd(Head(gs), GSum(Tail(gs)))

\* the largest number of chunks among the commitments com (not empty)
LargestLen(com) ==
    CHOOSE m \in {Len(com[i]) : i \in 1 .. Len(com)} :
        \A i \in 1 .. Len(com) : Len(com[i]) <= m

\* C5: for n >= 1 (commitment, scalar) pairs multi_scalar_mul returns a
\* commitment with as many chunks as the longest input; its chunk j is the
\* sum of scalars[i] * commitments[i].chunk[j] over the i whose commitment
\* has a chunk j.  In particular multi_scalar_mul([c], [1]) = c.
C5_MultiScalarMul ==
    (op = "multi_scalar_mul" /\ Len(args.com) >= 1
        /\ Len(args.com) = Len(args.elm))
    => /\ ~result.panic
       /\ Len(result.value) = LargestLen(args.com)
       /\ \A j \in 1 .. Len(result.value) :
            result.value[j] =
                GSum([i \in 1 .. Len(args.com) |->
                        IF j <= Len(args.com[i])
                          THEN GMul(args.com[i][j], args.elm[i])
                          ELSE GZero])
       /\ (Len(args.com) = 1 /\ args.elm = <<1>> /\ args.com[1] # <<>>)
            => result.value = args.com[1]

\* two commitments of different numbers of chunks, scalars other than 0 and 1
C5_Witness ==
    /\ op = "multi_scalar_mul"
    /\ Len(args.com) = 2
    /\ Len(args.com[1]) = 1
    /\ Len(args.com[2]) = 2
    /\ args.elm = <<3, 3>>
    /\ Len(result.value) = 2
    /\ result.value[2] = GMul(args.com[2][2], 3)

\* the product in the scalar field of the elements of a sequence
RECURSIVE FProd(_)
FProd(xs) == IF xs = <<>> THEN 1 ELSE FMul(FProd(Tail(xs)), Head(xs))

\* the product (1 + chals[i] * x^(2^(k-1-i))) over i in 0..k-1
BProduct(chals, x) ==
    LET k == Len(chals)
    IN  FProd([i \in 1 .. k |->
                 FAdd(1, FMul(chals[i], FPow(x, Pow2(k - i))))])

\* C6: for every challenge sequence of length k (k = 0 included) and every
\* x, b_poly(chals, x) is the product over i in 0..k-1 of
\* (1 + chals[i] * x^(2^(k-1-i))); it is 1 for k = 0.
C6_BPoly ==
    op = "b_poly" =>
        /\ result = Ok(BProduct(args.chals, args.x))
        /\ args.chals = <<>> => result.value = 1

\* three different challenges, none of them 0, at a point other than 0 and 1
C6_Witness ==
    /\ op = "b_poly"
    /\ args.chals = <<1, 2, 42>>
    /\ args.x = 3
    /\ result.value = BProduct(<<1, 2, 42>>, 3)
    /\ result.value # 1

\* C7: b_poly_coefficients(chals) has 2^k entries and is the coefficient
\* vector of B: for every x the sum of s[i] * x^i is b_poly(chals, x); for
\* no challenge it is [1].
C7_BPolyCoefficients ==
    op = "b_poly_coefficients" =>
        /\ ~result.panic
        /\ Len(result.value) = Pow2(Len(args.chals))
        /\ \A x \in F :
              FSum([i \in 1 .. Len(result.value) |->
                      FMul(result.value[i], FPow(x, i - 1))])
                = b_poly(args.chals, x)
        /\ args.chals = <<>> => result.value = <<1>>

\* three different challenges, none of them 0: eight coefficients
C7_Witness ==
    /\ op = "b_poly_coefficients"
    /\ args.chals = <<1, 2, 42>>
    /\ Len(result.value) = 8
    /\ result.value[2] = 42
    /\ result.value[5] = 1

\* the scalar multiplication of the circuit: what it scales by, given s
Forward(G, s) ==
    LET two_pow == FPowP(G.r, 2 % G.r, MODULUS_BIT_SIZE(G.r))
    IN  IF G.r < G.q
          THEN FAddP(G.r, FMulP(G.r, 2 % G.r, s), two_pow)
          ELSE FAddP(G.r, s, two_pow)

\* C8: shift_scalar inverts the forward map of the circuit in both branches:
\* the forward map (s -> s + 2^n when the scalar modulus is not smaller than
\* the base modulus, s -> 2*s + 2^n when it is smaller) applied to
\* shift_scalar(x) gives x.
C8_ShiftScalarInverts ==
    op = "shift_scalar" => Forward(args.G, result.value) = args.x

\* a commitment padded with the identity up to n chunks
Padded(c, n) == [i \in 1 .. n |-> IF i <= Len(c) THEN c[i] ELSE GZero]

\* C9: a + b and a - b are the index-wise sum and difference of a and b
\* after the shorter one is padded with the identity up to the chunk count
\* of the longer one, whichever operand is the shorter.
C9_AddSubPadded ==
    LET n == Max(Len(args.self), Len(args.other))
        a == Padded(args.self, n)
        b == Padded(args.other, n)
    IN  /\ op = "add" => result.value = [i \in 1 .. n |-> GAdd(a[i], b[i])]
        /\ op = "sub" => result.value = [i \in 1 .. n |-> GSub(a[i], b[i])]

\* C10: the addition of commitments is commutative and associative, also
\* for commitments of different chunk counts.
C10_AddCommutativeAssociative ==
    op = "add" =>
        /\ result.value = add(args.other, args.self)
        /\ \A c \in Commitments :
              add(result.value, c) = add(args.self, add(args.other, c))

\* a sum of two commitments of different chunk counts, none the identity
C10_Witness ==
    /\ op = "add"
    /\ args.self = <<1>>
    /\ args.other = <<5, 1>>
    /\ result.value = <<6, 1>>

\* the identity commitment: one chunk, the identity point
IdentityCommitment == <<GZero>>

\* C11 as stated: c + identity = c for the commitments c of every chunk
\* count, identity being the one-chunk commitment of the identity point.
C11_AddIdentityAny ==
    (op = "add" /\ args.other = IdentityCommitment) => result.value = args.self

\* C11 (amended): c + identity = c for the commitments c of at least one
\* chunk, identity being the one-chunk commitment of the identity point.
C11_AddIdentity ==
    (op = "add" /\ args.other = IdentityCommitment /\ args.self # <<>>)
    => result.value = args.self

\* a commitment of two chunks, none the identity, plus the identity
C11_Witness ==
    /\ op = "add"
    /\ args.self = <<5, 1>>
    /\ args.other = IdentityCommitment
    /\ result.value = <<5, 1>>

\* C12: multi_scalar_mul([], []) is the commitment of exactly one chunk, the
\* identity point, so that adding it to a commitment that is not empty
\* leaves that commitment unchanged.
C12_MultiScalarMulEmpty ==
    (op = "multi_scalar_mul" /\ args.com = <<>> /\ args.elm = <<>>) =>
        /\ result = Ok(<<GZero>>)
        /\ \A c \in Commitments \ {<<>>} :
              /\ add(c, result.value) = c
              /\ add(result.value, c) = c

\* the call with no commitment and no scalar
C12_Witness ==
    /\ op = "multi_scalar_mul"
    /\ args.com = <<>>
    /\ args.elm = <<>>
    /\ ~result.panic
    /\ Len(result.value) = 1

\* C13 as stated: inputs of different lengths end in an abort, never in a
\* value the caller can handle: multi_scalar_mul aborts when the commitments
\* and the scalars differ in number, zip aborts when the two commitments
\* differ in chunk count.
C13_MismatchAborts ==
    /\ (op = "multi_scalar_mul" /\ Len(args.com) # Len(args.elm)) => result.panic
    /\ (op = "zip" /\ Len(args.self) # Len(args.other)) => result.panic

\* C13 (amended): multi_scalar_mul aborts when the commitments and the
\* scalars differ in number; zip does not abort when the two commitments
\* differ in chunk count: it returns None, which the caller can handle.
C13_MismatchOutcomes ==
    /\ (op = "multi_scalar_mul" /\ Len(args.com) # Len(args.elm)) => result.panic
    /\ (op = "zip" /\ Len(args.self) # Len(args.other)) => result = Ok(None)

\* two commitments for one scalar: the call aborts
C13_Witness ==
    /\ op = "multi_scalar_mul"
    /\ Len(args.com) = 2
    /\ Len(args.elm) = 1
    /\ result.panic

\* every table has at least one evaluation point and rows of one length
Rectangular(evaluations) ==
    \A i \in 1 .. Len(evaluations) :
        LET table == evaluations[i].evaluations
        IN  /\ table # <<>>
            /\ \A j \in 1 .. Len(table) : Len(table[j]) = Len(table[1])

\* some Evaluation has another number of evaluation points than the first
PointCountsDiffer(evaluations) ==
    \E i \in 1 .. Len(evaluations) :
        Len(evaluations[i].evaluations) # Len(evaluations[1].evaluations)

\* C14: when the Evaluations given to combine_evaluations differ in their
\* number of evaluation points, a later one having fewer or more points than
\* the first, the call does not fail: the accumulator has the length of the
\* first Evaluation's table and the result has that shape.
C14_RaggedPointCounts ==
    (op = "combine_evaluations"
        /\ Rectangular(args.evaluations)
        /\ PointCountsDiffer(args.evaluations))
    => /\ ~result.panic
       /\ Len(result.value) = Len(args.evaluations[1].evaluations)

\* the curve points a sponge has absorbed, oldest first
RECURSIVE AbsorbedPoints(_)
AbsorbedPoints(sp) ==
    IF sp = <<>> THEN <<>>
    ELSE IF Head(sp).kind = "absorb"
         THEN <<Head(sp).value>> \o AbsorbedPoints(Tail(sp))
         ELSE AbsorbedPoints(Tail(sp))

\* the number of challenges a sponge has given out
SqueezeCount(sp) == Len(sp) - Len(AbsorbedPoints(sp))

\* C15: every absorb_commitment call on a sponge appends the chunks of its
\* commitment, first chunk first and each exactly once, to the points the
\* sponge has absorbed, and squeezes nothing; so after any sequence of calls
\* the absorbed points are the concatenation, in call order, of the chunks.
C15_AbsorbCommitment ==
    [][op' = "absorb_commitment"
        => /\ AbsorbedPoints(sponge')
                = AbsorbedPoints(sponge) \o args'.commitment
           /\ SqueezeCount(sponge') = SqueezeCount(sponge)
           /\ Len(sponge') = Len(sponge) + Len(args'.commitment)]_vars

C15_Witness ==
    /\ op = "absorb_commitment"
    /\ args.commitment = <<5, 1>>
    /\ AbsorbedPoints(sponge) = <<1, 5, 1>>
    /\ SqueezeCount(sponge) = 1

\* three Evaluations with a commitment, of two points and two chunks each
DocExample(evaluations) ==
    /\ Len(evaluations) = 3
    /\ \A i \in 1 .. 3 :
          /\ evaluations[i].commitment # <<>>
          /\ Len(evaluations[i].evaluations) = 2
          /\ \A j \in 1 .. 2 : Len(evaluations[i].evaluations[j]) = 2

\* C16: for 3 polynomials of 2 chunks each, evaluated at the 2 points zeta
\* and zeta*omega, combine_evaluations returns 3 elements, one per
\* polynomial; the k-th is Pk_1(zeta) + Pk_2(zeta) * polyscale
\* + Pk_1(zeta*omega) * polyscale^2 + Pk_2(zeta*omega) * polyscale^3.
C16_DocExample ==
    (op = "combine_evaluations" /\ DocExample(args.evaluations)) =>
        /\ ~result.panic
        /\ Len(result.value) = 3
        /\ \A k \in 1 .. 3 :
              LET E == args.evaluations[k].evaluations
                  ps == args.polyscale
              IN  result.value[k] =
                      FSum(<<E[1][1],
                             FMul(E[1][2], ps),
                             FMul(E[2][1], FPow(ps, 2)),
                             FMul(E[2][2], FPow(ps, 3))>>)

\* the evaluation tables of a list of Evaluations
Tables(evaluations) ==
    [i \in 1 .. Len(evaluations) |-> evaluations[i].evaluations]

\* every commitment is non-empty, every table has as many evaluation points
\* as the first one, and the rows of a table have one non-zero length
FoldableShapes(evaluations) ==
    \A i \in 1 .. Len(evaluations) :
        LET table == evaluations[i].evaluations
        IN  /\ evaluations[i].commitment # <<>>
            /\ Len(table) = Len(evaluations[1].evaluations)
            /\ \A j \in 1 .. Len(table) :
                  /\ Len(table[j]) # 0
                  /\ Len(table[j]) = Len(table[1])

\* the entries of a combination folded with the powers of evalscale
FoldPoints(acc, evalscale) ==
    FSum([j \in 1 .. Len(acc) |-> FMul(FPow(evalscale, j - 1), acc[j])])

\* C17: for Evaluations with non-empty commitments, one number of evaluation
\* points and rows of one non-zero chunk count, combined_inner_product of
\* their tables is the sum over the evaluation points j (counted from 0) of
\* evalscale^j * combine_evaluations(evaluations, polyscale)[j]; where one of
\* the two calls aborts (tables without evaluation points) so does the other.
C17_FoldsAgree ==
    (op = "combine_evaluations" /\ FoldableShapes(args.evaluations)) =>
        \A evalscale \in EvalScales :
            LET cip == combined_inner_product(args.polyscale, evalscale,
                                              Tables(args.evaluations))
            IN  IF result.panic THEN cip.panic
                ELSE cip = Ok(FoldPoints(result.value, evalscale))

\* two Evaluations of two chunks each at two points, folded with evalscale 5
C17_Witness ==
    /\ op = "combine_evaluations"
    /\ FoldableShapes(args.evaluations)
    /\ Len(args.evaluations) = 2
    /\ Len(args.evaluations[1].evaluations) = 2
    /\ \A i \in 1 .. 2 : Len(args.evaluations[i].evaluations[1]) = 2
    /\ ~result.panic
    /\ combined_inner_product(args.polyscale, 5, Tables(args.evaluations))
          = Ok(FoldPoints(result.value, 5))
    /\ FoldPoints(result.value, 5) # FoldPoints(result.value, 1)

====
